---- MODULE Spec2Model ----
(***************************************************************************)
(* Model of the ic-chess backend canister (src/ic-chess-backend/src/lib.rs) *)
(* : the game registry, the one-time seat tokens, turn enforcement, status  *)
(* derivation and move resolution.  The chess rules the canister obtains    *)
(* from the shakmaty crate (legal_moves, play, turn, checkers, San) are     *)
(* computed on a real 8x8 board from the standard starting position.        *)
(***************************************************************************)
EXTENDS Integers, Sequences, FiniteSets, TLC

(***************************************************************************)
(* Rules engine: squares, pieces, positions                                 *)
(***************************************************************************)
Squares == 0..63

FileOf(sq) == sq % 8

RankOf(sq) == sq \div 8

SquareAt(f, r) == r * 8 + f

Abs(x) == IF x < 0 THEN -x ELSE x

Sgn(x) == IF x < 0 THEN -1 ELSE IF x > 0 THEN 1 ELSE 0

Max2(a, b) == IF a > b THEN a ELSE b

Empty == [color |-> "none", role |-> "none"]

Pc(c, r) == [color |-> c, role |-> r]

Other(c) == IF c = "white" THEN "black" ELSE "white"

BackRank == <<"R", "N", "B", "Q", "K", "B", "N", "R">>

\* The standard starting position, white to move.
StartingPosition ==
    [board |-> [sq \in Squares |->
                  CASE RankOf(sq) = 0 -> Pc("white", BackRank[FileOf(sq) + 1])
                    [] RankOf(sq) = 1 -> Pc("white", "P")
                    [] RankOf(sq) = 6 -> Pc("black", "P")
                    [] RankOf(sq) = 7 -> Pc("black", BackRank[FileOf(sq) + 1])
                    [] OTHER -> Empty],
     turn |-> "white",
     castles |-> {0, 7, 56, 63},
     ep |-> -1,
     halfmoves |-> 0,
     fullmoves |-> 1]

\* Position::turn()
Turn(pos) == pos.turn

\* The squares strictly between a and b on a common rank, file or diagonal.
Between(a, b) ==
    LET df == FileOf(b) - FileOf(a)
        dr == RankOf(b) - RankOf(a)
        n  == Max2(Abs(df), Abs(dr))
    IN  IF df = 0 \/ dr = 0 \/ Abs(df) = Abs(dr)
        THEN {SquareAt(FileOf(a) + k * Sgn(df), RankOf(a) + k * Sgn(dr)) : k \in 1..(n - 1)}
        ELSE {}

ClearPath(board, a, b) == \A s \in Between(a, b) : board[s] = Empty

PawnDir(c) == IF c = "white" THEN 1 ELSE -1

\* The piece standing on `from` attacks the square `to`.
Attacks(board, from, to) ==
    LET p  == board[from]
        df == FileOf(to) - FileOf(from)
        dr == RankOf(to) - RankOf(from)
    IN  /\ from # to
        /\ CASE p.role = "N" -> {Abs(df), Abs(dr)} = {1, 2}
             [] p.role = "K" -> Max2(Abs(df), Abs(dr)) = 1
             [] p.role = "R" -> (df = 0 \/ dr = 0) /\ ClearPath(board, from, to)
             [] p.role = "B" -> Abs(df) = Abs(dr) /\ ClearPath(board, from, to)
             [] p.role = "Q" -> (df = 0 \/ dr = 0 \/ Abs(df) = Abs(dr))
                                /\ ClearPath(board, from, to)
             [] p.role = "P" -> Abs(df) = 1 /\ dr = PawnDir(p.color)
             [] OTHER -> FALSE

\* The pieces of colour `by` that attack `sq`.
Attackers(board, sq, by) ==
    {s \in Squares : board[s].color = by /\ Attacks(board, s, sq)}

KingSquare(board, c) == CHOOSE s \in Squares : board[s] = Pc(c, "K")

\* Position::checkers(): the pieces giving check to the side to move.
Checkers(pos) ==
    Attackers(pos.board, KingSquare(pos.board, pos.turn), Other(pos.turn))

(***************************************************************************)
(* Rules engine: moves (shakmaty::Move), generation, legality, play         *)
(***************************************************************************)
Mv(kind, role, from, to, capture, promotion) ==
    [kind |-> kind, role |-> role, from |-> from, to |-> to,
     capture |-> capture, promotion |-> promotion]

PromotionRoles == {"Q", "R", "B", "N"}

LastRank(c) == IF c = "white" THEN 7 ELSE 0

StartRank(c) == IF c = "white" THEN 1 ELSE 6

\* A pawn move from `from` to `to`, once per promotion role on the last rank.
PawnMoves(c, from, to, capture) ==
    IF RankOf(to) = LastRank(c)
    THEN {Mv("Normal", "P", from, to, capture, pr) : pr \in PromotionRoles}
    ELSE {Mv("Normal", "P", from, to, capture, "none")}

PawnPseudo(pos, from) ==
    LET b   == pos.board
        c   == pos.turn
        f   == FileOf(from)
        r1  == RankOf(from) + PawnDir(c)
        one == SquareAt(f, r1)
        two == SquareAt(f, r1 + PawnDir(c))
        diag == {SquareAt(g, r1) : g \in {f - 1, f + 1} \cap (0..7)}
    IN  IF r1 \notin 0..7 THEN {}
        ELSE (IF b[one] = Empty THEN PawnMoves(c, from, one, FALSE) ELSE {})
             \cup (IF RankOf(from) = StartRank(c) /\ b[one] = Empty /\ b[two] = Empty
                   THEN {Mv("Normal", "P", from, two, FALSE, "none")} ELSE {})
             \cup UNION {PawnMoves(c, from, t, TRUE) : t \in {d \in diag : b[d].color = Other(c)}}
             \cup {Mv("EnPassant", "P", from, t, TRUE, "none") : t \in {d \in diag : d = pos.ep}}

PiecePseudo(pos, from) ==
    LET b == pos.board
    IN  {Mv("Normal", b[from].role, from, t, b[t] # Empty, "none") :
            t \in {u \in Squares : Attacks(b, from, u) /\ b[u].color # pos.turn}}

\* Castling is encoded as shakmaty does: from = king square, to = rook square.
CastleKingTo(king, rook) == SquareAt(IF rook > king THEN 6 ELSE 2, RankOf(king))

CastleRookTo(king, rook) == SquareAt(IF rook > king THEN 5 ELSE 3, RankOf(king))

CastlePseudo(pos, king) ==
    LET b == pos.board
        c == pos.turn
    IN  {Mv("Castle", "K", king, rook, FALSE, "none") :
            rook \in {q \in pos.castles :
                        /\ RankOf(q) = RankOf(king)
                        /\ RankOf(king) = LastRank(Other(c))
                        /\ b[q] = Pc(c, "R")
                        /\ ClearPath(b, king, q)
                        /\ \A s \in {king, CastleKingTo(king, q)} \cup Between(king, CastleKingTo(king, q)) :
                              Attackers(b, s, Other(c)) = {}}}

PseudoMoves(pos) ==
    UNION {IF pos.board[from].role = "P" THEN PawnPseudo(pos, from)
           ELSE IF pos.board[from].role = "K"
                THEN PiecePseudo(pos, from) \cup CastlePseudo(pos, from)
                ELSE PiecePseudo(pos, from) :
           from \in {s \in Squares : pos.board[s].color = pos.turn}}

\* The board after the move, before the turn passes.
BoardAfter(pos, m) ==
    LET b == pos.board
        c == pos.turn
    IN  CASE m.kind = "Castle" ->
               [sq \in Squares |->
                  IF sq = CastleKingTo(m.from, m.to) THEN Pc(c, "K")
                  ELSE IF sq = CastleRookTo(m.from, m.to) THEN Pc(c, "R")
                  ELSE IF sq \in {m.from, m.to} THEN Empty ELSE b[sq]]
          [] m.kind = "EnPassant" ->
               [sq \in Squares |->
                  IF sq = m.to THEN b[m.from]
                  ELSE IF sq \in {m.from, SquareAt(FileOf(m.to), RankOf(m.from))} THEN Empty
                  ELSE b[sq]]
          [] OTHER ->
               [sq \in Squares |->
                  IF sq = m.to
                  THEN (IF m.promotion # "none" THEN Pc(c, m.promotion) ELSE b[m.from])
                  ELSE IF sq = m.from THEN Empty ELSE b[sq]]

DoMove(pos, m) ==
    LET c == pos.turn
    IN  [board |-> BoardAfter(pos, m),
         turn |-> Other(c),
         castles |-> (pos.castles \ {m.from, m.to})
                     \ (IF m.role = "K"
                        THEN {SquareAt(0, RankOf(m.from)), SquareAt(7, RankOf(m.from))}
                        ELSE {}),
         ep |-> IF m.role = "P" /\ Abs(RankOf(m.to) - RankOf(m.from)) = 2
                THEN SquareAt(FileOf(m.from), RankOf(m.from) + PawnDir(c))
                ELSE -1,
         halfmoves |-> IF m.role = "P" \/ m.capture THEN 0 ELSE pos.halfmoves + 1,
         fullmoves |-> IF c = "black" THEN pos.fullmoves + 1 ELSE pos.fullmoves]

\* The mover's king is not left attacked.
KingSafeAfter(pos, m) ==
    LET b == BoardAfter(pos, m)
    IN  Attackers(b, KingSquare(b, pos.turn), Other(pos.turn)) = {}

\* The legal moves of a position, generated from the board.
GenerateLegal(pos) == {m \in PseudoMoves(pos) : KingSafeAfter(pos, m)}


(***************************************************************************)
(* Move text.  A text is the sequence of the bytes of a UTF-8 string: an    *)
(* ASCII character is one byte; a two-byte character is a lead byte         *)
(* followed by a continuation byte.                                         *)
(***************************************************************************)
FileChars == <<"a", "b", "c", "d", "e", "f", "g", "h">>

RankChars == <<"1", "2", "3", "4", "5", "6", "7", "8">>

LeadByte == "<C3>"

ContByte == "<A9>"

\* Zero-based index of ch in chars, or -1.
IndexIn(chars, ch) ==
    IF \E i \in 1..Len(chars) : chars[i] = ch
    THEN (CHOOSE i \in 1..Len(chars) : chars[i] = ch) - 1
    ELSE -1

\* str::is_char_boundary(i), i a byte offset
IsCharBoundary(mv, i) ==
    i = 0 \/ i = Len(mv) \/ (i < Len(mv) /\ mv[i + 1] # ContByte)

\* &mv[a..b], defined when both offsets are character boundaries
Slice(mv, a, b) == SubSeq(mv, a + 1, b)

\* Square::from_str: exactly a file letter a-h and a rank digit 1-8; -1 on error.
SquareFromStr(s) ==
    IF Len(s) = 2 /\ IndexIn(FileChars, s[1]) >= 0 /\ IndexIn(RankChars, s[2]) >= 0
    THEN SquareAt(IndexIn(FileChars, s[1]), IndexIn(RankChars, s[2]))
    ELSE -1

SquareText(sq) == FileChars[FileOf(sq) + 1] \o RankChars[RankOf(sq) + 1]

(***************************************************************************)
(* Rules engine: standard algebraic notation (shakmaty::san::San)           *)
(***************************************************************************)
SanNormal(role, file, rank, capture, to, promotion) ==
    [kind |-> "Normal", role |-> role, file |-> file, rank |-> rank,
     capture |-> capture, to |-> to, promotion |-> promotion]

SanOther(kind) ==
    [kind |-> kind, role |-> "none", file |-> -1, rank |-> -1,
     capture |-> FALSE, to |-> -1, promotion |-> "none"]

\* San::disambiguate(m, legal): the notation of m with the disambiguation it
\* needs among the legal moves.
SanDisambiguate(m, legal) ==
    LET rivals == {c \in legal :
                     c.kind = "Normal" /\ c.role = m.role /\ c.to = m.to /\ c.from # m.from}
        sameFile == \E c \in rivals : FileOf(c.from) = FileOf(m.from)
        needRank == sameFile
        needFile == \E c \in rivals :
                        RankOf(c.from) = RankOf(m.from) \/ FileOf(c.from) # FileOf(m.from)
    IN  CASE m.kind = "Castle" ->
               SanOther(IF m.to > m.from THEN "CastleK" ELSE "CastleQ")
          [] m.kind = "EnPassant" ->
               SanNormal("P", FileOf(m.from), -1, TRUE, m.to, "none")
          [] m.role = "P" ->
               SanNormal("P", IF m.capture THEN FileOf(m.from) ELSE -1, -1,
                         m.capture, m.to, m.promotion)
          [] OTHER ->
               SanNormal(m.role,
                         IF needFile THEN FileOf(m.from) ELSE -1,
                         IF needRank THEN RankOf(m.from) ELSE -1,
                         m.capture, m.to, m.promotion)

\* San::to_string()
SanToString(san) ==
    CASE san.kind = "CastleK" -> "O-O"
      [] san.kind = "CastleQ" -> "O-O-O"
      [] san.kind = "Null" -> "--"
      [] OTHER ->
           (IF san.role = "P" THEN "" ELSE san.role)
           \o (IF san.file >= 0 THEN FileChars[san.file + 1] ELSE "")
           \o (IF san.rank >= 0 THEN RankChars[san.rank + 1] ELSE "")
           \o (IF san.capture THEN "x" ELSE "")
           \o SquareText(san.to)
           \o (IF san.promotion # "none" THEN "=" \o san.promotion ELSE "")

RoleChars == {"P", "N", "B", "R", "Q", "K"}

SanErr == SanOther("Err")

\* The text from byte offset i on reads as a square.
SquareAtOffset(mv, i) ==
    IF i + 2 <= Len(mv) THEN SquareFromStr(Slice(mv, i, i + 2)) ELSE -1

\* The tail of San::from_str: an optional "=<role>" and then the end of text.
SanPromotionTail(mv, i, role, file, rank, capture, to) ==
    IF i = Len(mv) THEN SanNormal(role, file, rank, capture, to, "none")
    ELSE IF mv[i + 1] = "=" /\ i + 2 = Len(mv) /\ mv[i + 2] \in RoleChars
         THEN SanNormal(role, file, rank, capture, to, mv[i + 2])
         ELSE SanErr

\* San::from_str for a piece or pawn move; i is the offset after the role letter.
SanNormalFromStr(mv, role, i) ==
    LET hasFile == i < Len(mv) /\ IndexIn(FileChars, mv[i + 1]) >= 0
        file == IF hasFile THEN IndexIn(FileChars, mv[i + 1]) ELSE -1
        j == IF hasFile THEN i + 1 ELSE i
        hasRank == j < Len(mv) /\ IndexIn(RankChars, mv[j + 1]) >= 0
        rank == IF hasRank THEN IndexIn(RankChars, mv[j + 1]) ELSE -1
        k == IF hasRank THEN j + 1 ELSE j
    IN  IF k < Len(mv) /\ mv[k + 1] = "x"
        THEN IF SquareAtOffset(mv, k + 1) >= 0
             THEN SanPromotionTail(mv, k + 3, role, file, rank, TRUE, SquareAtOffset(mv, k + 1))
             ELSE SanErr
        ELSE IF k = Len(mv) \/ mv[k + 1] = "="
        THEN IF hasFile /\ hasRank
             THEN SanPromotionTail(mv, k, role, -1, -1, FALSE, SquareAt(file, rank))
             ELSE SanErr
        ELSE IF SquareAtOffset(mv, k) >= 0
             THEN SanPromotionTail(mv, k + 2, role, file, rank, FALSE, SquareAtOffset(mv, k))
             ELSE SanErr

\* mv.parse::<San>()
SanFromStr(mv) ==
    CASE mv = <<"-", "-">> -> SanOther("Null")
      [] mv = <<"O", "-", "O">> -> SanOther("CastleK")
      [] mv = <<"O", "-", "O", "-", "O">> -> SanOther("CastleQ")
      [] Len(mv) = 3 /\ mv[1] = "@" ->
           IF SquareAtOffset(mv, 1) >= 0 THEN SanOther("Put") ELSE SanErr
      [] Len(mv) = 4 /\ mv[2] = "@" ->
           IF mv[1] \in RoleChars /\ SquareAtOffset(mv, 2) >= 0 THEN SanOther("Put") ELSE SanErr
      [] mv = <<>> -> SanErr
      [] OTHER ->
           IF mv[1] \in RoleChars
           THEN SanNormalFromStr(mv, mv[1], 1)
           ELSE SanNormalFromStr(mv, "P", 0)

\* The legal moves a notation matches.
SanCandidates(san, legal) ==
    CASE san.kind = "Normal" ->
           {m \in legal :
              /\ m.kind \in {"Normal", "EnPassant"}
              /\ m.role = san.role
              /\ m.to = san.to
              /\ m.promotion = san.promotion
              /\ (san.file < 0 \/ FileOf(m.from) = san.file)
              /\ (san.rank < 0 \/ RankOf(m.from) = san.rank)}
      [] san.kind = "CastleK" ->
           {m \in legal : m.kind = "Castle" /\ m.to > m.from}
      [] san.kind = "CastleQ" ->
           {m \in legal : m.kind = "Castle" /\ m.to < m.from}
      [] OTHER -> {}

NoMove == Mv("none", "none", -1, -1, FALSE, "none")

\* San::to_move over a list of legal moves: the one move the notation
\* denotes, if there is exactly one.
SanToMoveIn(san, legal) ==
    LET c == SanCandidates(san, legal)
    IN  IF Cardinality(c) = 1
        THEN [ok |-> TRUE, m |-> CHOOSE m \in c : TRUE]
        ELSE [ok |-> FALSE, m |-> NoMove]

(***************************************************************************)
(* Canister helpers (lib.rs)                                                *)
(***************************************************************************)
\* GameStatus
Ongoing == [kind |-> "Ongoing", winner_white |-> FALSE]

Checkmate(winner_white) == [kind |-> "Checkmate", winner_white |-> winner_white]

Stalemate == [kind |-> "Stalemate", winner_white |-> FALSE]

Resigned(winner_white) == [kind |-> "Resigned", winner_white |-> winner_white]

Draw(reason) == [kind |-> "Draw", winner_white |-> FALSE, reason |-> reason]

\* The promotion letter of a five-byte coordinate text.
PromoRole(ch) ==
    CASE ch \in {"q", "Q"} -> "Q"
      [] ch \in {"r", "R"} -> "R"
      [] ch \in {"b", "B"} -> "B"
      [] ch \in {"n", "N"} -> "N"
      [] OTHER -> "none"

\* The loop of parse_uci_to_move over the legal moves.
UciMatches(legal, from, to, promo_role) ==
    {m \in legal :
       /\ m.from = from
       /\ m.to = to
       /\ IF promo_role # "none"
          THEN m.promotion = promo_role
          ELSE m.promotion \in {"none", "Q"}}

\* The body of parse_uci_to_move, given pos.legal_moves(): Some(move), None,
\* or a panic of the string slicing.
ParseUciIn(legal, mv) ==
    IF Len(mv) < 4 THEN [tag |-> "None", m |-> NoMove]
    ELSE IF ~IsCharBoundary(mv, 2) THEN [tag |-> "Panic", m |-> NoMove]
    ELSE IF SquareFromStr(Slice(mv, 0, 2)) < 0 THEN [tag |-> "None", m |-> NoMove]
    ELSE IF ~IsCharBoundary(mv, 4) THEN [tag |-> "Panic", m |-> NoMove]
    ELSE IF SquareFromStr(Slice(mv, 2, 4)) < 0 THEN [tag |-> "None", m |-> NoMove]
    ELSE LET from == SquareFromStr(Slice(mv, 0, 2))
             to == SquareFromStr(Slice(mv, 2, 4))
             promo_role == IF Len(mv) = 5 THEN PromoRole(mv[5]) ELSE "none"
             found == UciMatches(legal, from, to, promo_role)
         IN  IF found # {}
             THEN [tag |-> "Some", m |-> CHOOSE m \in found : TRUE]
             ELSE [tag |-> "None", m |-> NoMove]

ErrIllegal == "Illegal move"

ErrParse == "Move must be SAN (e.g. 'e4') or UCI ('e2e4'/'e7e8q')"

\* The body of parse_move_with_autopromo, given pos.legal_moves():
\* coordinate form first, then algebraic form.
ResolveIn(legal, mv) ==
    LET uci == ParseUciIn(legal, mv)
        san == SanFromStr(mv)
        res == SanToMoveIn(san, legal)
    IN  CASE uci.tag = "Panic" -> [tag |-> "Panic", m |-> NoMove, err |-> ""]
          [] uci.tag = "Some" -> [tag |-> "Ok", m |-> uci.m, err |-> ""]
          [] san.kind # "Err" ->
               IF res.ok THEN [tag |-> "Ok", m |-> res.m, err |-> ""]
               ELSE [tag |-> "Err", m |-> NoMove, err |-> ErrIllegal]
          [] OTHER -> [tag |-> "Err", m |-> NoMove, err |-> ErrParse]

(***************************************************************************)
(* Inputs: the move texts callers submit                                    *)
(***************************************************************************)
MoveTexts ==
    { <<"f", "2", "f", "3">>,
      <<"e", "7", "e", "5">>,
      <<"g", "2", "g", "4">>,
      <<"d", "8", "h", "4">>,
      <<"e", "4">>,
      <<"e", "2", "e", "5">>,
      <<"z", "z">>,
      <<"e", "2", "a", LeadByte, ContByte>> }

(***************************************************************************)
(* Inputs: whole games.  Each line is a sequence of move texts in algebraic  *)
(* form, written as the engine itself writes them into the history.          *)
(***************************************************************************)
\* 1.f3 e5 2.g4 Qh4: black mates.
FoolsMate ==
    << <<"f", "3">>,
       <<"e", "5">>,
       <<"g", "4">>,
       <<"Q", "h", "4">> >>

\* 1.e4 e5 2.Qh5 Nc6 3.Bc4 Nf6 4.Qxf7: white mates.
ScholarsMate ==
    << <<"e", "4">>,
       <<"e", "5">>,
       <<"Q", "h", "5">>,
       <<"N", "c", "6">>,
       <<"B", "c", "4">>,
       <<"N", "f", "6">>,
       <<"Q", "x", "f", "7">> >>

\* The ten-move game that ends with black, to move, stalemated.
LoydStalemate ==
    << <<"e", "3">>,
       <<"a", "5">>,
       <<"Q", "h", "5">>,
       <<"R", "a", "6">>,
       <<"Q", "x", "a", "5">>,
       <<"h", "5">>,
       <<"h", "4">>,
       <<"R", "a", "h", "6">>,
       <<"Q", "x", "c", "7">>,
       <<"f", "6">>,
       <<"Q", "x", "d", "7">>,
       <<"K", "f", "7">>,
       <<"Q", "x", "b", "7">>,
       <<"Q", "d", "3">>,
       <<"Q", "x", "b", "8">>,
       <<"Q", "h", "7">>,
       <<"Q", "x", "c", "8">>,
       <<"K", "g", "6">>,
       <<"Q", "e", "6">> >>

\* A white pawn reaches h7 with the knight on g8 to capture; white to move.
PromotionRun ==
    << <<"h", "4">>,
       <<"g", "5">>,
       <<"h", "x", "g", "5">>,
       <<"h", "6">>,
       <<"g", "x", "h", "6">>,
       <<"a", "6">>,
       <<"h", "7">>,
       <<"a", "5">> >>

\* The texts tried on the promotion square after PromotionRun.
PromotionTexts ==
    { <<"h", "x", "g", "8", "=", "Q">>,
      <<"h", "7", "g", "8">>,
      <<"h", "7", "g", "8", "n">>,
      <<"h", "7", "g", "8", "R">>,
      <<"h", "7", "g", "8", "x">>,
      <<"h", "7", "g", "8", "q", "q">>,
      <<"h", "7", "g", "8", "k">>,
      <<"h", "7", "h", "8", "q">> }

Lines ==
    {FoolsMate, ScholarsMate, LoydStalemate}
    \cup {Append(PromotionRun, t) : t \in PromotionTexts}

RECURSIVE Join(_)
\* The string of a text of ASCII characters.
Join(text) == IF text = <<>> THEN "" ELSE Head(text) \o Join(Tail(text))

\* The texts that continue a line from the history moves_san.
Book(moves_san) ==
    {l[Len(moves_san) + 1] :
        l \in {k \in Lines :
                 /\ Len(k) > Len(moves_san)
                 /\ \A i \in 1..Len(moves_san) : Join(k[i]) = moves_san[i]}}

RECURSIVE FollowLine(_, _, _)
\* table extended with the positions along line, played from pos.
FollowLine(table, pos, line) ==
    LET known == IF pos \in DOMAIN table THEN table ELSE table @@ (pos :> GenerateLegal(pos))
    IN  IF line = <<>> \/ ResolveIn(known[pos], Head(line)).tag # "Ok"
        THEN known
        ELSE FollowLine(known, DoMove(pos, ResolveIn(known[pos], Head(line)).m), Tail(line))

RECURSIVE FollowLines(_, _)
\* table extended with the positions along every line of lines, one line
\* after the other.
FollowRest(table, lines) ==
    IF DOMAIN table = {} THEN table ELSE FollowLines(table, lines)

FollowLines(table, lines) ==
    IF lines = {} THEN table
    ELSE FollowRest(FollowLine(table, StartingPosition, CHOOSE k \in lines : TRUE),
                    lines \ {CHOOSE k \in lines : TRUE})

(***************************************************************************)
(* The positions the move texts can lead to from the starting position,     *)
(* and the positions along the lines, each with its generated legal moves.  *)
(* A Chess value carries the legal moves of its position, taken from this   *)
(* table.                                                                   *)
(***************************************************************************)
\* The positions one resolved text away from pos.
TextSuccessors(pos, legal) ==
    {DoMove(pos, ResolveIn(legal, mv).m) :
        mv \in {t \in MoveTexts : ResolveIn(legal, t).tag = "Ok"}}

RECURSIVE Explore(_, _)
Explore(table, frontier) ==
    IF frontier = {} THEN table
    ELSE LET p == CHOOSE q \in frontier : TRUE
             legal == GenerateLegal(p)
             new == TextSuccessors(p, legal) \ (DOMAIN table \cup frontier)
         IN  Explore(table @@ (p :> legal), (frontier \ {p}) \cup new)

LegalTable == FollowLines(Explore(<<>>, {StartingPosition}), Lines)

\* A Chess value: the position p together with the legal moves the generator
\* gives for it.
Chess(p) ==
    [board |-> p.board,
     turn |-> p.turn,
     castles |-> p.castles,
     ep |-> p.ep,
     halfmoves |-> p.halfmoves,
     fullmoves |-> p.fullmoves,
     legal |-> LegalTable[p]]

\* Chess::default()
ChessDefault == Chess(StartingPosition)

\* Position::legal_moves()
LegalMoves(pos) == pos.legal

\* Position::play(m): the new position, or an error when m is not legal here.
Play(pos, m) ==
    IF m \in LegalMoves(pos)
    THEN [ok |-> TRUE, pos |-> Chess(DoMove(pos, m))]
    ELSE [ok |-> FALSE, pos |-> pos]

\* San::from_move(pos, m)
SanFromMove(pos, m) == SanDisambiguate(m, LegalMoves(pos))

\* San::to_move(pos)
SanToMove(san, pos) == SanToMoveIn(san, LegalMoves(pos))

\* Variant: the check test is left out, every dead end is a checkmate.
compute_status_NoCheckTest(pos) ==
    IF LegalMoves(pos) = {} THEN Checkmate(Turn(pos) # "white") ELSE Ongoing

\* Variant: a dead end without check is reported as a draw.
compute_status_DrawForStalemate(pos) ==
    IF LegalMoves(pos) = {}
    THEN (IF Checkers(pos) # {} THEN Checkmate(Turn(pos) # "white") ELSE Draw("stalemate"))
    ELSE Ongoing

\* compute_status
compute_status(pos) ==
    LET has_any == LegalMoves(pos) # {}
        in_check == Checkers(pos) # {}
    IN  IF ~has_any
        THEN (IF in_check THEN Checkmate(Turn(pos) # "white") ELSE Stalemate)
        ELSE Ongoing

\* parse_uci_to_move
parse_uci_to_move(pos, mv) == ParseUciIn(LegalMoves(pos), mv)

\* parse_move_with_autopromo
parse_move_with_autopromo(pos, mv) == ResolveIn(LegalMoves(pos), mv)

(***************************************************************************)
(* Tokens.  raw_rand yields 32 random bytes, encoded as text; the draw of    *)
(* invocation c for a seat is modelled as the token Rand(c, seat), distinct *)
(* from every other draw.  SHA-256 is modelled as an injective function,    *)
(* and ZeroPreimage names a text whose digest is the all-zero value written *)
(* when a seat is burned.                                                   *)
(***************************************************************************)
Rand(c, seat) == [kind |-> "rand", call |-> c, seat |-> seat]

ZeroPreimage == [kind |-> "zero", call |-> 0, seat |-> "none"]

Forged == [kind |-> "forged", call |-> 0, seat |-> "none"]

NoToken == [kind |-> "none", call |-> 0, seat |-> "none"]

\* hash_token
hash_token(s) == [sha256 |-> s]

\* [0u8; 32]
ZeroHash == hash_token(ZeroPreimage)

(***************************************************************************)
(* Bounds and inputs                                                        *)
(***************************************************************************)
MaxCalls == 2

MaxTime == 1

Actors == {"A", "B", "C"}

None == "none"

Calls == 1..MaxCalls

GameIds == 1..(MaxCalls + 1)

(***************************************************************************)
(* State                                                                    *)
(***************************************************************************)
VARIABLES
    next_id,    \* State.next_id
    games,      \* State.games: id -> GameInternal
    now,        \* the clock read by time()
    calls,      \* the create_game invocations and where each is suspended
    hist        \* per game: the moves and tokens of the calls that succeeded

vars == <<next_id, games, now, calls, hist>>

\* GameInternal as create_game builds it, before the id is assigned
NewGame(t, white_token, black_token) ==
    [id |-> 0,
     pos |-> ChessDefault,
     moves_san |-> <<>>,
     white |-> None,
     black |-> None,
     white_token_hash |-> hash_token(white_token),
     black_token_hash |-> hash_token(black_token),
     status |-> Ongoing,
     created_ns |-> t,
     updated_ns |-> t]

IdleCall == [pc |-> "idle", now |-> 0, white_token |-> NoToken, black_token |-> NoToken, id |-> 0]

NoHist == [moves |-> <<>>, joined |-> {}]

Init ==
    /\ next_id = 1
    /\ games = <<>>
    /\ now = 0
    /\ calls = [c \in Calls |-> IdleCall]
    /\ hist = <<>>

(***************************************************************************)
(* Handlers, as functions from the registry and the call's inputs to the    *)
(* new registry and the result returned to the caller                       *)
(***************************************************************************)
ErrNoGame == "No such game"

ErrAlreadySeated == "You already occupy a seat in this game"

ErrWhiteTaken == "White seat already taken"

ErrBlackTaken == "Black seat already taken"

ErrInvalidToken == "Invalid or already-used token"

ErrFinished == "Game finished"

ErrNotWhite == "Not white"

ErrNotBlack == "Not black"

ErrNotSeated == "You are not seated"

Reply(gs, res, err) == [games |-> gs, res |-> res, err |-> err]

\* Variant: the occupancy check is left out.
SeatTakenNever(occupant) == FALSE

\* g.white.is_some() / g.black.is_some() in join_by_token
SeatTaken(occupant) == occupant # None

\* Variant: only checkmate counts as finished.
FinishedOnlyCheckmate(g) == g.status.kind = "Checkmate"

\* !matches!(g.status, GameStatus::Ongoing)
Finished(g) == g.status.kind # "Ongoing"

\* Variant: a claimed seat keeps its token hash (no burn).
join_by_token_NoBurn(gs, game_id, token, who, t) ==
    IF game_id \notin DOMAIN gs THEN Reply(gs, "Err", ErrNoGame)
    ELSE
    LET g == gs[game_id]
        th == hash_token(token)
    IN  IF g.white = who \/ g.black = who THEN Reply(gs, "Err", ErrAlreadySeated)
        ELSE IF th = g.white_token_hash
        THEN IF SeatTaken(g.white) THEN Reply(gs, "Err", ErrWhiteTaken)
             ELSE Reply([gs EXCEPT ![game_id] =
                            [g EXCEPT !.white = who, !.updated_ns = t]], "Ok", "")
        ELSE IF th = g.black_token_hash
        THEN IF SeatTaken(g.black) THEN Reply(gs, "Err", ErrBlackTaken)
             ELSE Reply([gs EXCEPT ![game_id] =
                            [g EXCEPT !.black = who, !.updated_ns = t]], "Ok", "")
        ELSE Reply(gs, "Err", ErrInvalidToken)

\* Variant: the caller's own seats are not looked at.
join_by_token_NoSeatCheck(gs, game_id, token, who, t) ==
    IF game_id \notin DOMAIN gs THEN Reply(gs, "Err", ErrNoGame)
    ELSE
    LET g == gs[game_id]
        th == hash_token(token)
    IN  IF th = g.white_token_hash
        THEN IF SeatTaken(g.white) THEN Reply(gs, "Err", ErrWhiteTaken)
             ELSE Reply([gs EXCEPT ![game_id] =
                            [g EXCEPT !.white = who,
                                      !.white_token_hash = ZeroHash,
                                      !.updated_ns = t]], "Ok", "")
        ELSE IF th = g.black_token_hash
        THEN IF SeatTaken(g.black) THEN Reply(gs, "Err", ErrBlackTaken)
             ELSE Reply([gs EXCEPT ![game_id] =
                            [g EXCEPT !.black = who,
                                      !.black_token_hash = ZeroHash,
                                      !.updated_ns = t]], "Ok", "")
        ELSE Reply(gs, "Err", ErrInvalidToken)

\* Variant: seats can be claimed on Ongoing games only.
join_by_token_OngoingOnly(gs, game_id, token, who, t) ==
    IF game_id \notin DOMAIN gs THEN Reply(gs, "Err", ErrNoGame)
    ELSE
    LET g == gs[game_id]
        th == hash_token(token)
    IN  IF Finished(g) THEN Reply(gs, "Err", ErrFinished)
        ELSE IF g.white = who \/ g.black = who THEN Reply(gs, "Err", ErrAlreadySeated)
        ELSE IF th = g.white_token_hash
        THEN IF SeatTaken(g.white) THEN Reply(gs, "Err", ErrWhiteTaken)
             ELSE Reply([gs EXCEPT ![game_id] =
                            [g EXCEPT !.white = who,
                                      !.white_token_hash = ZeroHash,
                                      !.updated_ns = t]], "Ok", "")
        ELSE IF th = g.black_token_hash
        THEN IF SeatTaken(g.black) THEN Reply(gs, "Err", ErrBlackTaken)
             ELSE Reply([gs EXCEPT ![game_id] =
                            [g EXCEPT !.black = who,
                                      !.black_token_hash = ZeroHash,
                                      !.updated_ns = t]], "Ok", "")
        ELSE Reply(gs, "Err", ErrInvalidToken)

\* join_by_token
join_by_token(gs, game_id, token, who, t) ==
    IF game_id \notin DOMAIN gs THEN Reply(gs, "Err", ErrNoGame)
    ELSE
    LET g == gs[game_id]
        th == hash_token(token)
    IN  IF g.white = who \/ g.black = who THEN Reply(gs, "Err", ErrAlreadySeated)
        ELSE IF th = g.white_token_hash
        THEN IF SeatTaken(g.white) THEN Reply(gs, "Err", ErrWhiteTaken)
             ELSE Reply([gs EXCEPT ![game_id] =
                            [g EXCEPT !.white = who,
                                      !.white_token_hash = ZeroHash,
                                      !.updated_ns = t]], "Ok", "")
        ELSE IF th = g.black_token_hash
        THEN IF SeatTaken(g.black) THEN Reply(gs, "Err", ErrBlackTaken)
             ELSE Reply([gs EXCEPT ![game_id] =
                            [g EXCEPT !.black = who,
                                      !.black_token_hash = ZeroHash,
                                      !.updated_ns = t]], "Ok", "")
        ELSE Reply(gs, "Err", ErrInvalidToken)

\* Variant: the mover must hold the seat even when the seat is unclaimed.
TurnErrorStrict(g, who) ==
    IF Turn(g.pos) = "white"
    THEN (IF g.white # who THEN ErrNotWhite ELSE "")
    ELSE (IF g.black # who THEN ErrNotBlack ELSE "")

\* Variant: the seat is enforced on white's turn only.
TurnErrorWhiteOnly(g, who) ==
    IF Turn(g.pos) = "white"
    THEN (IF g.white # None /\ g.white # who THEN ErrNotWhite ELSE "")
    ELSE ""

\* The turn check of make_move: the error it returns, or "" when it passes.
TurnError(g, who) ==
    IF Turn(g.pos) = "white"
    THEN (IF g.white # None /\ g.white # who THEN ErrNotWhite ELSE "")
    ELSE (IF g.black # None /\ g.black # who THEN ErrNotBlack ELSE "")

\* Variant: updated_ns is written before the move text is resolved.
make_move_TouchFirst(gs, game_id, mv, who, t) ==
    IF game_id \notin DOMAIN gs THEN Reply(gs, "Err", ErrNoGame)
    ELSE
    LET g == gs[game_id]
        touched == [gs EXCEPT ![game_id].updated_ns = t]
        parsed == parse_move_with_autopromo(g.pos, mv)
        san_str == SanToString(SanFromMove(g.pos, parsed.m))
        played == Play(g.pos, parsed.m)
    IN  IF Finished(g) THEN Reply(gs, "Err", ErrFinished)
        ELSE IF TurnError(g, who) # "" THEN Reply(gs, "Err", TurnError(g, who))
        ELSE IF parsed.tag = "Panic" THEN Reply(gs, "Trap", "")
        ELSE IF parsed.tag = "Err" THEN Reply(touched, "Err", parsed.err)
        ELSE IF ~played.ok THEN Reply(touched, "Err", ErrIllegal)
        ELSE Reply([gs EXCEPT ![game_id] =
                       [g EXCEPT !.pos = played.pos,
                                 !.moves_san = Append(g.moves_san, san_str),
                                 !.status = compute_status(played.pos),
                                 !.updated_ns = t]], "Ok", "")

\* Variant: a move that ends the game is applied but not recorded.
make_move_NoPush(gs, game_id, mv, who, t) ==
    IF game_id \notin DOMAIN gs THEN Reply(gs, "Err", ErrNoGame)
    ELSE
    LET g == gs[game_id]
        parsed == parse_move_with_autopromo(g.pos, mv)
        san_str == SanToString(SanFromMove(g.pos, parsed.m))
        played == Play(g.pos, parsed.m)
    IN  IF Finished(g) THEN Reply(gs, "Err", ErrFinished)
        ELSE IF TurnError(g, who) # "" THEN Reply(gs, "Err", TurnError(g, who))
        ELSE IF parsed.tag = "Panic" THEN Reply(gs, "Trap", "")
        ELSE IF parsed.tag = "Err" THEN Reply(gs, "Err", parsed.err)
        ELSE IF ~played.ok THEN Reply(gs, "Err", ErrIllegal)
        ELSE Reply([gs EXCEPT ![game_id] =
                       [g EXCEPT !.pos = played.pos,
                                 !.moves_san = IF compute_status(played.pos) = Ongoing
                                               THEN Append(g.moves_san, san_str)
                                               ELSE g.moves_san,
                                 !.status = compute_status(played.pos),
                                 !.updated_ns = t]], "Ok", "")

\* The end of make_move, from play(m) on: played is the result of play.
make_move_commit(gs, game_id, san_str, played, t) ==
    IF ~played.ok THEN Reply(gs, "Err", ErrIllegal)
    ELSE Reply([gs EXCEPT ![game_id] =
                   [gs[game_id] EXCEPT !.pos = played.pos,
                                       !.moves_san = Append(@, san_str),
                                       !.status = compute_status(played.pos),
                                       !.updated_ns = t]], "Ok", "")

\* make_move
make_move(gs, game_id, mv, who, t) ==
    IF game_id \notin DOMAIN gs THEN Reply(gs, "Err", ErrNoGame)
    ELSE
    LET g == gs[game_id]
        parsed == parse_move_with_autopromo(g.pos, mv)
        san_str == SanToString(SanFromMove(g.pos, parsed.m))
    IN  IF Finished(g) THEN Reply(gs, "Err", ErrFinished)
        ELSE IF TurnError(g, who) # "" THEN Reply(gs, "Err", TurnError(g, who))
        ELSE IF parsed.tag = "Panic" THEN Reply(gs, "Trap", "")
        ELSE IF parsed.tag = "Err" THEN Reply(gs, "Err", parsed.err)
        ELSE make_move_commit(gs, game_id, san_str, Play(g.pos, parsed.m), t)

\* Variant: the resigning side is recorded as the winner.
resign_WinnerFlipped(gs, game_id, who, t) ==
    IF game_id \notin DOMAIN gs THEN Reply(gs, "Err", ErrNoGame)
    ELSE
    LET g == gs[game_id]
    IN  IF Finished(g) THEN Reply(gs, "Err", ErrFinished)
        ELSE IF g.white = who
        THEN Reply([gs EXCEPT ![game_id] =
                       [g EXCEPT !.status = Resigned(TRUE), !.updated_ns = t]], "Ok", "")
        ELSE IF g.black = who
        THEN Reply([gs EXCEPT ![game_id] =
                       [g EXCEPT !.status = Resigned(FALSE), !.updated_ns = t]], "Ok", "")
        ELSE Reply(gs, "Err", ErrNotSeated)

\* resign
resign(gs, game_id, who, t) ==
    IF game_id \notin DOMAIN gs THEN Reply(gs, "Err", ErrNoGame)
    ELSE
    LET g == gs[game_id]
    IN  IF Finished(g) THEN Reply(gs, "Err", ErrFinished)
        ELSE IF g.white = who
        THEN Reply([gs EXCEPT ![game_id] =
                       [g EXCEPT !.status = Resigned(FALSE), !.updated_ns = t]], "Ok", "")
        ELSE IF g.black = who
        THEN Reply([gs EXCEPT ![game_id] =
                       [g EXCEPT !.status = Resigned(TRUE), !.updated_ns = t]], "Ok", "")
        ELSE Reply(gs, "Err", ErrNotSeated)

\* to_view: the snapshot a caller sees; the token hashes are not part of it.
to_view(g) ==
    [id |-> g.id,
     white |-> g.white,
     black |-> g.black,
     fen |-> g.pos,
     moves_san |-> g.moves_san,
     status |-> g.status,
     created_ns |-> g.created_ns,
     updated_ns |-> g.updated_ns,
     white_principal |-> g.white,
     black_principal |-> g.black,
     to_move_white |-> (Turn(g.pos) = "white")]

NoView == [id |-> 0]

\* get_game
get_game(gs, id) == IF id \in DOMAIN gs THEN to_view(gs[id]) ELSE NoView

(***************************************************************************)
(* list_recent.  Its offset is a u64 and its limit a u32, each converted to  *)
(* usize, whose width is that of the build target's pointers: 32 bits for   *)
(* wasm32, 64 bits for wasm64 or a native build.  An unsigned integer is    *)
(* written as its four 16-bit words, most significant first.                *)
(***************************************************************************)
WordRange == 65536

U64(w3, w2, w1, w0) == [w3 |-> w3, w2 |-> w2, w1 |-> w1, w0 |-> w0]

\* The u64 of a number below 2^16.
Small(k) == U64(0, 0, 0, k)

PointerWidths == {32, 64}

\* x as usize: the low usize_bits bits of x.
AsUsize(usize_bits, x) ==
    IF usize_bits = 32 THEN U64(0, 0, x.w1, x.w0) ELSE x

\* min(x, n) for a number n below 2^16.
MinWith(x, n) ==
    IF x.w3 > 0 \/ x.w2 > 0 \/ x.w1 > 0 \/ x.w0 >= n THEN n ELSE x.w0

RECURSIVE SortDescending(_)
\* ids.sort_unstable_by(|a, b| b.cmp(a))
SortDescending(ids) ==
    IF ids = {} THEN <<>>
    ELSE <<CHOOSE a \in ids : \A b \in ids : a >= b>>
         \o SortDescending(ids \ {CHOOSE a \in ids : \A b \in ids : a >= b})

\* list_recent, built for a target with pointers of usize_bits bits
list_recent(usize_bits, gs, offset_desc, limit) ==
    LET ids == SortDescending(DOMAIN gs)
        skipped == MinWith(AsUsize(usize_bits, offset_desc), Len(ids))
        taken == MinWith(AsUsize(usize_bits, limit), Len(ids) - skipped)
    IN  [i \in 1..taken |-> to_view(gs[ids[skipped + i]])]

\* The offsets and limits callers pass: small ones, 2^32 - 1, 2^32,
\* 2^32 + 1, 2^48 and 2^64 - 1 for the offset; small ones and 2^32 - 1 for
\* the limit.
Offsets ==
    {Small(k) : k \in 0..(MaxCalls + 1)}
    \cup {U64(0, 0, WordRange - 1, WordRange - 1),
          U64(0, 1, 0, 0),
          U64(0, 1, 0, 1),
          U64(1, 0, 0, 0),
          U64(WordRange - 1, WordRange - 1, WordRange - 1, WordRange - 1)}

Limits ==
    {Small(k) : k \in 0..(MaxCalls + 1)} \cup {U64(0, 0, WordRange - 1, WordRange - 1)}

(***************************************************************************)
(* Actions                                                                  *)
(***************************************************************************)
\* The tokens a caller may present: those drawn so far, a made-up one, and
\* the preimage of the all-zero digest.
Tokens ==
    ({calls[c].white_token : c \in Calls} \cup {calls[c].black_token : c \in Calls}
     \cup {Forged, ZeroPreimage}) \ {NoToken}

\* The clock advances between invocations.
Tick ==
    /\ now < MaxTime
    /\ now' = now + 1
    /\ UNCHANGED <<next_id, games, calls, hist>>

\* create_game up to its first await: reads the clock, asks for random bytes.
CreateGameStart(c) ==
    /\ calls[c].pc = "idle"
    /\ \A d \in Calls : d < c => calls[d].pc # "idle"
    /\ calls' = [calls EXCEPT ![c] = [IdleCall EXCEPT !.pc = "await_white", !.now = now]]
    /\ UNCHANGED <<next_id, games, now, hist>>

\* Variant: the game is inserted, half-built, as soon as the white token is
\* known.
CreateGameWhiteInsert(c) ==
    /\ calls[c].pc = "await_white"
    /\ calls' = [calls EXCEPT ![c].pc = "await_black", ![c].white_token = Rand(c, "white")]
    /\ games' = [i \in DOMAIN games \cup {next_id} |->
                   IF i = next_id
                   THEN [NewGame(calls[c].now, Rand(c, "white"), NoToken) EXCEPT !.id = next_id]
                   ELSE games[i]]
    /\ hist' = [i \in DOMAIN games \cup {next_id} |->
                   IF i = next_id THEN NoHist ELSE hist[i]]
    /\ UNCHANGED <<next_id, now>>

\* The first raw_rand replies: the white token; asks for random bytes again.
CreateGameWhite(c) ==
    /\ calls[c].pc = "await_white"
    /\ calls' = [calls EXCEPT ![c].pc = "await_black", ![c].white_token = Rand(c, "white")]
    /\ UNCHANGED <<next_id, games, now, hist>>

\* Variant: next_id is not advanced.
CreateGameBlackSameId(c) ==
    /\ calls[c].pc = "await_black"
    /\ LET black_token == Rand(c, "black")
           g == NewGame(calls[c].now, calls[c].white_token, black_token)
           id == next_id
       IN  /\ games' = [i \in DOMAIN games \cup {id} |->
                          IF i = id THEN [g EXCEPT !.id = id] ELSE games[i]]
           /\ hist' = [i \in DOMAIN games \cup {id} |->
                          IF i = id THEN NoHist ELSE hist[i]]
           /\ calls' = [calls EXCEPT ![c].pc = "done", ![c].black_token = black_token,
                                     ![c].id = id]
    /\ UNCHANGED <<next_id, now>>

\* The second raw_rand replies: the black token; the game is built, given the
\* next id and inserted, and the id and both tokens are returned.
CreateGameBlack(c) ==
    /\ calls[c].pc = "await_black"
    /\ LET black_token == Rand(c, "black")
           g == NewGame(calls[c].now, calls[c].white_token, black_token)
           id == next_id
       IN  /\ next_id' = next_id + 1
           /\ games' = [i \in DOMAIN games \cup {id} |->
                          IF i = id THEN [g EXCEPT !.id = id] ELSE games[i]]
           /\ hist' = [i \in DOMAIN games \cup {id} |->
                          IF i = id THEN NoHist ELSE hist[i]]
           /\ calls' = [calls EXCEPT ![c].pc = "done", ![c].black_token = black_token,
                                     ![c].id = id]
    /\ UNCHANGED now

\* raw_rand is rejected: expect("raw_rand failed") panics and the call traps.
CreateGameRandFail(c) ==
    /\ calls[c].pc \in {"await_white", "await_black"}
    /\ calls' = [calls EXCEPT ![c].pc = "trapped"]
    /\ UNCHANGED <<next_id, games, now, hist>>

JoinByToken(game_id, token, who) ==
    LET r == join_by_token(games, game_id, token, who, now)
    IN  /\ games' = r.games
        /\ hist' = IF r.res = "Ok"
                   THEN [hist EXCEPT ![game_id].joined = @ \cup {token}]
                   ELSE hist
        /\ UNCHANGED <<next_id, now, calls>>

\* The registry takes the value make_move returns in r; a successful call
\* is recorded with the move it resolved.
MakeMoveReturns(r, game_id, mv) ==
    /\ games' = r.games
    /\ hist' = IF r.res = "Ok"
               THEN [hist EXCEPT ![game_id].moves =
                        Append(@, parse_move_with_autopromo(games[game_id].pos, mv).m)]
               ELSE hist
    /\ UNCHANGED <<next_id, now, calls>>

MakeMove(game_id, mv, who) ==
    MakeMoveReturns(make_move(games, game_id, mv, who, now), game_id, mv)

Resign(game_id, who) ==
    LET r == resign(games, game_id, who, now)
    IN  /\ games' = r.games
        /\ UNCHANGED <<next_id, now, calls, hist>>

\* One create_game invocation and everything callers can do with its game.
Next ==
    \/ Tick
    \/ CreateGameStart(1)
    \/ CreateGameWhite(1)
    \/ CreateGameBlack(1)
    \/ CreateGameRandFail(1)
    \/ \E game_id \in GameIds, token \in Tokens, who \in Actors : JoinByToken(game_id, token, who)
    \/ \E game_id \in GameIds, mv \in MoveTexts, who \in Actors : MakeMove(game_id, mv, who)
    \/ \E game_id \in GameIds, who \in Actors : Resign(game_id, who)

Spec == Init /\ [][Next]_vars

\* Concurrent create_game invocations, interleaved with calls on the games
\* already created.  The clock stands still here: what time() returns plays
\* no part in how ids and tokens are handed out.
RegistryActors == {"A"}

RegistryTexts == { <<"f", "2", "f", "3">> }

NextRegistry ==
    \/ \E c \in Calls : CreateGameStart(c)
    \/ \E c \in Calls : CreateGameWhite(c)
    \/ \E c \in Calls : CreateGameBlack(c)
    \/ \E c \in Calls : CreateGameRandFail(c)
    \/ \E game_id \in GameIds, token \in Tokens, who \in RegistryActors :
          JoinByToken(game_id, token, who)
    \/ \E game_id \in GameIds, mv \in RegistryTexts, who \in RegistryActors :
          MakeMove(game_id, mv, who)
    \/ \E game_id \in GameIds, who \in RegistryActors : Resign(game_id, who)

SpecRegistry == Init /\ [][NextRegistry]_vars

\* One game on which the callers replay the lines: at each point a caller
\* presents a text that continues a line from the game's history, or a text
\* that resolves to nothing.
LineActors == {"A", "B"}

LineTexts(game_id) ==
    {<<"z", "z">>}
    \cup (IF game_id \in DOMAIN games THEN Book(games[game_id].moves_san) ELSE {})

NextLines ==
    \/ CreateGameStart(1)
    \/ CreateGameWhite(1)
    \/ CreateGameBlack(1)
    \/ CreateGameRandFail(1)
    \/ \E game_id \in GameIds, token \in Tokens, who \in LineActors :
          JoinByToken(game_id, token, who)
    \/ \E game_id \in GameIds, who \in LineActors :
          \E mv \in LineTexts(game_id) : MakeMove(game_id, mv, who)
    \/ \E game_id \in GameIds, who \in LineActors : Resign(game_id, who)

SpecLines == Init /\ [][NextLines]_vars

\* Concurrent create_game invocations under a running clock, with joins on
\* the games already created.
NextClock ==
    \/ Tick
    \/ \E c \in Calls : CreateGameStart(c)
    \/ \E c \in Calls : CreateGameWhite(c)
    \/ \E c \in Calls : CreateGameBlack(c)
    \/ \E c \in Calls : CreateGameRandFail(c)
    \/ \E game_id \in GameIds, token \in Tokens, who \in RegistryActors :
          JoinByToken(game_id, token, who)

SpecClock == Init /\ [][NextClock]_vars

(***************************************************************************)
(* Properties                                                               *)
(***************************************************************************)
RECURSIVE ApplyAll(_, _)
\* The position reached by applying the moves, in order, from pos.
ApplyAll(pos, moves) ==
    IF moves = <<>> THEN pos ELSE ApplyAll(Chess(DoMove(pos, Head(moves))), Tail(moves))

\* The occupant of the seat of the side to move.
MoverSeat(g) == IF Turn(g.pos) = "white" THEN g.white ELSE g.black

\* C1: terminal statuses are absorbing.  In every reachable state, on a game
\* whose status is not Ongoing, every make_move (any caller, any text) and
\* every resign (any caller) returns the error "Game finished" and leaves the
\* registry, hence the game's position, history, status, seats and
\* updated_ns, as it was.
C1_TerminalAbsorbing ==
    \A id \in DOMAIN games :
        games[id].status.kind # "Ongoing" =>
            /\ \A who \in Actors, mv \in MoveTexts :
                  make_move(games, id, mv, who, now) = Reply(games, "Err", ErrFinished)
            /\ \A who \in Actors :
                  resign(games, id, who, now) = Reply(games, "Err", ErrFinished)

\* A checkmated game whose white player, at a time later than the game's
\* last update, is refused by make_move and by resign.
C1_Witness ==
    \E id \in DOMAIN games :
        /\ games[id].status.kind = "Checkmate"
        /\ games[id].white # None
        /\ games[id].updated_ns < now
        /\ resign(games, id, games[id].white, now).err = ErrFinished
        /\ make_move(games, id, <<"e", "4">>, games[id].white, now).err = ErrFinished

\* C2 as stated: after a join with secret S succeeded on game id, every later
\* join_by_token(id, S), by any caller, returns "Invalid or already-used
\* token" and claims no seat.
C2_Original ==
    \A id \in DOMAIN games : \A token \in hist[id].joined : \A who \in Actors :
        join_by_token(games, id, token, who, now) = Reply(games, "Err", ErrInvalidToken)

\* C2 amended: after a join with secret S succeeded on game id, every later
\* join_by_token(id, S) fails and claims no seat: with "You already occupy a
\* seat in this game" when the caller holds a seat of the game, and with
\* "Invalid or already-used token" when the caller holds none.
C2_UsedSecretRejected ==
    \A id \in DOMAIN games : \A token \in hist[id].joined : \A who \in Actors :
        join_by_token(games, id, token, who, now) =
            Reply(games, "Err",
                  IF who \in {games[id].white, games[id].black}
                  THEN ErrAlreadySeated ELSE ErrInvalidToken)

\* Both secrets of a game have been used, and an actor holding no seat is
\* refused with the white one.
C2_Witness ==
    \E id \in DOMAIN games : \E who \in Actors :
        /\ Cardinality(hist[id].joined) = 2
        /\ who \notin {games[id].white, games[id].black}
        /\ \E token \in hist[id].joined :
              /\ token.seat = "white"
              /\ join_by_token(games, id, token, who, now).err = ErrInvalidToken

\* A seat that holds an actor holds the same actor after the step.
C3_SeatStep ==
    \A id \in DOMAIN games :
        /\ games[id].white # None => games'[id].white = games[id].white
        /\ games[id].black # None => games'[id].black = games[id].black

\* C3: seat occupancy is exclusive and permanent.  In every step, of any
\* operation and with any token presented (the preimage of the all-zero
\* digest included), a seat that holds an actor holds the same actor after
\* the step.
C3_SeatPermanent == [][C3_SeatStep]_vars

\* Both seats are held, their hashes are burned, moves have been made since,
\* and an outsider presenting the preimage of the all-zero digest is told the
\* white seat is taken.
C3_Witness ==
    \E id \in DOMAIN games : \E who \in Actors :
        /\ games[id].white # None
        /\ games[id].black # None
        /\ who \notin {games[id].white, games[id].black}
        /\ games[id].white_token_hash = ZeroHash
        /\ games[id].moves_san # <<>>
        /\ join_by_token(games, id, ZeroPreimage, who, now).err = ErrWhiteTaken

\* Every join_by_token, make_move and resign that does not succeed returns
\* the registry unchanged.
C4_RejectedCallsKeepState ==
    /\ \A id \in GameIds, who \in Actors, token \in Tokens :
          LET r == join_by_token(games, id, token, who, now)
          IN  r.res # "Ok" => r.games = games
    /\ \A id \in GameIds, who \in Actors, mv \in MoveTexts :
          LET r == make_move(games, id, mv, who, now)
          IN  r.res # "Ok" => r.games = games
    /\ \A id \in GameIds, who \in Actors :
          LET r == resign(games, id, who, now)
          IN  r.res # "Ok" => r.games = games

\* Position, history and status of a game change together.
C4_CommitStep ==
    /\ (next_id' # next_id) <=> (DOMAIN games' # DOMAIN games)
    /\ \A id \in DOMAIN games :
          LET g == games[id]
              h == games'[id]
          IN  /\ (h.pos # g.pos) <=> (h.moves_san # g.moves_san)
              /\ h.pos # g.pos =>
                    /\ Len(h.moves_san) = Len(g.moves_san) + 1
                    /\ SubSeq(h.moves_san, 1, Len(g.moves_san)) = g.moves_san
                    /\ h.status = compute_status(h.pos)
                    /\ g.status = Ongoing

\* C4: no mutation on a rejected call.  In every reachable state, every
\* join_by_token, make_move and resign that does not succeed, for any game
\* id (unknown ids included), caller, token and text, returns the registry
\* unchanged; and in every step the registry's next id changes only with
\* the set of games, and a game's position changes exactly when its history
\* grows by one entry, its status then being the one computed from the new
\* position.
C4_NoPartialCommit == [](C4_RejectedCallsKeepState) /\ [][C4_CommitStep]_vars

\* A seated game with moves made, at a time later than its last update, where
\* calls are rejected for each reason: unknown game, already seated, seat
\* taken, invalid token, wrong turn, illegal move, unparsable move, not
\* seated.
C4_Witness ==
    \E id \in DOMAIN games : \E who \in Actors :
        LET g == games[id]
        IN  /\ g.status = Ongoing
            /\ g.white # None
            /\ g.black # None
            /\ who \notin {g.white, g.black}
            /\ g.moves_san # <<>>
            /\ g.updated_ns < now
            /\ Turn(g.pos) = "black"
            /\ make_move(games, id, <<"e", "7", "e", "5">>, g.white, now).err = ErrNotBlack
            /\ make_move(games, id, <<"e", "2", "e", "5">>, g.black, now).err = ErrIllegal
            /\ make_move(games, id, <<"z", "z">>, g.black, now).err = ErrParse
            /\ make_move(games, next_id, <<"e", "4">>, who, now).err = ErrNoGame
            /\ resign(games, id, who, now).err = ErrNotSeated
            /\ join_by_token(games, id, Forged, who, now).err = ErrInvalidToken
            /\ join_by_token(games, id, ZeroPreimage, who, now).err = ErrWhiteTaken
            /\ join_by_token(games, id, Forged, g.white, now).err = ErrAlreadySeated

\* C5: in every reachable state a game's history has one entry per
\* make_move call that succeeded on it, and its position is the result of
\* applying the moves those calls resolved, in order, from the starting
\* position.
C5_HistoryMatchesMoves ==
    \A id \in DOMAIN games :
        /\ Len(games[id].moves_san) = Len(hist[id].moves)
        /\ games[id].pos = ApplyAll(ChessDefault, hist[id].moves)

\* Four moves have succeeded on a game, the last giving checkmate.
C5_Witness ==
    \E id \in DOMAIN games :
        /\ Len(hist[id].moves) = 4
        /\ games[id].moves_san = <<"f3", "e5", "g4", "Qh4">>
        /\ games[id].status = Checkmate(FALSE)

\* The create_game invocations that have committed and returned.
DoneCalls == {c \in Calls : calls[c].pc = "done"}

\* The ids in the registry are 1..n for n committed invocations, each game
\* carries its own id, and the committed invocations returned distinct ids,
\* which are the ids in the registry.
C6_IdsDense ==
    /\ next_id = Cardinality(DoneCalls) + 1
    /\ DOMAIN games = 1..Cardinality(DoneCalls)
    /\ \A id \in DOMAIN games : games[id].id = id
    /\ \A c \in DoneCalls, d \in DoneCalls : calls[c].id = calls[d].id => c = d
    /\ {calls[c].id : c \in DoneCalls} = DOMAIN games

\* The invocation that commits n-th returns n; the next id never decreases;
\* an id in the registry stays there, with the same creation time, the same
\* creating invocation and seat hashes that are either the ones it had or
\* the burned value.
C6_IdsStep ==
    /\ next_id' >= next_id
    /\ \A c \in Calls :
          calls[c].pc # "done" /\ calls'[c].pc = "done" =>
              /\ calls'[c].id = Cardinality(DoneCalls) + 1
              /\ calls'[c].id \notin DOMAIN games
    /\ \A c \in DoneCalls : calls'[c].pc = "done" /\ calls'[c].id = calls[c].id
    /\ \A id \in DOMAIN games :
          /\ id \in DOMAIN games'
          /\ games'[id].id = id
          /\ games'[id].created_ns = games[id].created_ns
          /\ games'[id].white_token_hash \in {games[id].white_token_hash, ZeroHash}
          /\ games'[id].black_token_hash \in {games[id].black_token_hash, ZeroHash}

\* C6: game ids are unique and strictly increasing from 1.  Under every
\* interleaving of create_game invocations, each suspended twice, with the
\* other operations: the n-th invocation to commit returns id n, the ids in
\* the registry are exactly 1..n, no two invocations return the same id, and
\* an id once assigned keeps denoting the same game.
C6_IdsUniqueIncreasing == [](C6_IdsDense) /\ [][C6_IdsStep]_vars

\* Two invocations committed in the opposite order of their start: the one
\* started second holds id 1, the one started first holds id 2, and the game
\* with id 1 has been joined and played on in between.
C6_Witness ==
    /\ calls[1].pc = "done"
    /\ calls[2].pc = "done"
    /\ calls[2].id = 1
    /\ calls[1].id = 2
    /\ games[1].white # None
    /\ games[1].moves_san # <<>>

\* Every game in the registry was committed by an invocation that has
\* returned, and its seat hashes are those of that invocation's two secrets
\* (or burned, once the seat is claimed); an invocation that has not
\* committed has no game: ids beyond the committed ones are unknown to
\* get_game, join_by_token, make_move and resign, and the secrets it has
\* drawn so far open no seat of any game.
C7_OnlyCommittedVisible ==
    /\ \A id \in DOMAIN games :
          \E c \in DoneCalls :
              /\ calls[c].id = id
              /\ calls[c].white_token # NoToken
              /\ calls[c].black_token # NoToken
              /\ games[id].created_ns = calls[c].now
              /\ games[id].white_token_hash =
                    IF games[id].white = None
                    THEN hash_token(calls[c].white_token) ELSE ZeroHash
              /\ games[id].black_token_hash =
                    IF games[id].black = None
                    THEN hash_token(calls[c].black_token) ELSE ZeroHash
    /\ \A id \in GameIds \ {calls[c].id : c \in DoneCalls} : \A who \in Actors :
          /\ get_game(games, id) = NoView
          /\ \A token \in Tokens :
                join_by_token(games, id, token, who, now) = Reply(games, "Err", ErrNoGame)
          /\ \A mv \in MoveTexts :
                make_move(games, id, mv, who, now) = Reply(games, "Err", ErrNoGame)
          /\ resign(games, id, who, now) = Reply(games, "Err", ErrNoGame)
    /\ \A c \in Calls \ DoneCalls :
          /\ calls[c].id = 0
          /\ \A token \in {calls[c].white_token, calls[c].black_token} \ {NoToken} :
                \A id \in GameIds, who \in Actors :
                    join_by_token(games, id, token, who, now).res # "Ok"

\* A game enters the registry only in the step in which an invocation
\* receives its second random value and returns, and it enters as the game
\* built from that invocation's clock reading and two secrets: starting
\* position, empty history, no occupants, Ongoing.
C7_AppearStep ==
    \A id \in DOMAIN games' \ DOMAIN games :
        \E c \in Calls :
            /\ calls[c].pc = "await_black"
            /\ calls'[c].pc = "done"
            /\ calls'[c].id = id
            /\ calls'[c].white_token # NoToken
            /\ calls'[c].black_token # NoToken
            /\ games'[id] = [NewGame(calls'[c].now, calls'[c].white_token,
                                     calls'[c].black_token) EXCEPT !.id = id]
            /\ to_view(games'[id]).moves_san = <<>>
            /\ to_view(games'[id]).white = None
            /\ to_view(games'[id]).black = None
            /\ to_view(games'[id]).status = Ongoing
            /\ to_view(games'[id]).fen = ChessDefault

\* C7: game creation is atomic with respect to readers.  While a create_game
\* invocation is suspended, before its first or between its two random
\* draws, the registry that get_game, list_recent, join_by_token, make_move
\* and resign read holds no game of it, and what it has drawn opens no seat;
\* a game becomes visible only in the step in which its invocation returns,
\* with the hashes of the two secrets returned, the starting position, empty
\* history, no occupants and status Ongoing.
C7_CreationAtomic == [](C7_OnlyCommittedVisible) /\ [][C7_AppearStep]_vars

\* An invocation is suspended between its two random draws while the game of
\* another invocation exists and has its white seat claimed; an actor with
\* no seat presents the suspended invocation's secret on that game and is
\* refused, and the id the suspended invocation will get is unknown.
C7_Witness ==
    \E c \in Calls, id \in DOMAIN games, who \in Actors :
        /\ calls[c].pc = "await_black"
        /\ calls[c].white_token # NoToken
        /\ games[id].white # None
        /\ who \notin {games[id].white, games[id].black}
        /\ join_by_token(games, id, calls[c].white_token, who, now).err = ErrInvalidToken
        /\ get_game(games, next_id) = NoView

\* C8: turn ownership in make_move on an Ongoing game.  When the seat of the
\* side to move is held by an actor other than the caller, the call fails
\* with "Not white" / "Not black" for every move text and changes nothing;
\* when that seat is unoccupied, every caller (the occupant of the other
\* seat and actors seated nowhere included) who presents a text that
\* resolves to a legal move succeeds, and the move is applied.
C8_TurnOwnership ==
    \A id \in DOMAIN games :
        games[id].status = Ongoing =>
            \A who \in Actors, mv \in MoveTexts :
                LET g == games[id]
                    r == make_move(games, id, mv, who, now)
                    parsed == parse_move_with_autopromo(g.pos, mv)
                IN  /\ MoverSeat(g) \notin {None, who} =>
                          r = Reply(games, "Err",
                                    IF Turn(g.pos) = "white" THEN ErrNotWhite ELSE ErrNotBlack)
                    /\ (MoverSeat(g) = None /\ parsed.tag = "Ok") =>
                          /\ r.res = "Ok"
                          /\ r.games[id].pos = Play(g.pos, parsed.m).pos
                          /\ Len(r.games[id].moves_san) = Len(g.moves_san) + 1

\* White is seated, black is not, and each side has moved once, so black's
\* move was made for an unoccupied seat; now an outsider's legal move for
\* white is refused with "Not white", and the white occupant's is accepted.
C8_Witness ==
    \E id \in DOMAIN games : \E who \in Actors :
        LET g == games[id]
        IN  /\ g.status = Ongoing
            /\ g.white # None
            /\ g.black = None
            /\ who # g.white
            /\ Len(hist[id].moves) = 2
            /\ Turn(g.pos) = "white"
            /\ make_move(games, id, <<"g", "2", "g", "4">>, who, now).err = ErrNotWhite
            /\ make_move(games, id, <<"g", "2", "g", "4">>, g.white, now).res = "Ok"

\* C9 as stated: in an Ongoing game where an actor holds the white seat and
\* black is to move, every make_move by that actor fails with the wrong-turn
\* error and leaves the game unchanged.
C9_Original ==
    \A id \in DOMAIN games :
        LET g == games[id]
        IN  (g.status = Ongoing /\ g.white # None /\ Turn(g.pos) = "black") =>
                \A mv \in MoveTexts :
                    make_move(games, id, mv, g.white, now) = Reply(games, "Err", ErrNotBlack)

\* C9 amended: in an Ongoing game where an actor holds the white seat, the
\* black seat is held too and black is to move, every make_move by the white
\* occupant fails with "Not black" and leaves the game unchanged.
C9_WhiteOutOfTurnRejected ==
    \A id \in DOMAIN games :
        LET g == games[id]
        IN  (g.status = Ongoing /\ g.white # None /\ g.black # None
             /\ Turn(g.pos) = "black") =>
                \A mv \in MoveTexts :
                    make_move(games, id, mv, g.white, now) = Reply(games, "Err", ErrNotBlack)

\* Both seats are held, white has made the first move, and the white
\* occupant's legal reply for black is refused with "Not black".
C9_Witness ==
    \E id \in DOMAIN games :
        LET g == games[id]
        IN  /\ g.status = Ongoing
            /\ g.white # None
            /\ g.black # None
            /\ g.moves_san = <<"f3">>
            /\ parse_move_with_autopromo(g.pos, <<"e", "7", "e", "5">>).tag = "Ok"
            /\ make_move(games, id, <<"e", "7", "e", "5">>, g.white, now).err = ErrNotBlack

\* C10: resign on an Ongoing game.  A caller holding neither seat gets "You
\* are not seated" and nothing changes; the white occupant's resign sets the
\* status to Resigned with black the winner, the black occupant's to
\* Resigned with white the winner, whoever is to move, and changes nothing
\* but the status and updated_ns; so a resigned game's losing seat is held.
C10_Resign ==
    \A id \in DOMAIN games :
        LET g == games[id]
        IN  /\ g.status = Ongoing =>
                \A who \in Actors :
                    resign(games, id, who, now) =
                        IF who = g.white
                        THEN Reply([games EXCEPT ![id] =
                                       [g EXCEPT !.status = Resigned(FALSE),
                                                 !.updated_ns = now]], "Ok", "")
                        ELSE IF who = g.black
                        THEN Reply([games EXCEPT ![id] =
                                       [g EXCEPT !.status = Resigned(TRUE),
                                                 !.updated_ns = now]], "Ok", "")
                        ELSE Reply(games, "Err", ErrNotSeated)
            /\ g.status = Resigned(FALSE) => g.white # None
            /\ g.status = Resigned(TRUE) => g.black # None
            /\ g.status.kind = "Resigned" =>
                  /\ g.pos = ApplyAll(ChessDefault, hist[id].moves)
                  /\ Len(g.moves_san) = Len(hist[id].moves)

\* The black occupant has resigned when it was white's turn: white is the
\* winner, the moves made before are still in the history, and an actor with
\* no seat had no way to do the same.
C10_Witness ==
    \E id \in DOMAIN games :
        LET g == games[id]
        IN  /\ g.status = Resigned(TRUE)
            /\ g.black # None
            /\ Turn(g.pos) = "white"
            /\ Len(g.moves_san) = 2
            /\ g.updated_ns = now
            /\ now > g.created_ns

\* The status the claim gives a position reached by a move of the side
\* mover: checkmate won by mover when the side to move has no legal move and
\* is in check, stalemate when it has none and is not in check, Ongoing
\* otherwise.
C11_Expected(pos, mover) ==
    IF LegalMoves(pos) = {}
    THEN (IF Checkers(pos) # {} THEN Checkmate(mover = "white") ELSE Stalemate)
    ELSE Ongoing

\* A game that nobody resigned has the status of its position, the side not
\* to move being the one that moved last; and a checkmated game refuses
\* every move.
C11_StatusOfPosition ==
    \A id \in DOMAIN games :
        LET g == games[id]
        IN  /\ g.status.kind # "Resigned" => g.status = C11_Expected(g.pos, Other(Turn(g.pos)))
            /\ g.status.kind = "Checkmate" =>
                  \A who \in Actors, mv \in MoveTexts \cup LineTexts(id) :
                      make_move(games, id, mv, who, now) = Reply(games, "Err", ErrFinished)

\* A step that changes a game's position stores the status of the new
\* position, the mover being the side that was to move before the step.
C11_StatusStep ==
    \A id \in DOMAIN games :
        games'[id].pos # games[id].pos =>
            /\ games[id].status = Ongoing
            /\ games'[id].status = C11_Expected(games'[id].pos, Turn(games[id].pos))

\* C11: after every successful make_move the stored status is the
\* evaluator's result on the position after the move: Checkmate won by the
\* side that just moved when the side now to move has no legal move and is
\* in check, Stalemate when it has no legal move and is not in check,
\* Ongoing otherwise; and once checkmate is reached every further make_move
\* fails with "Game finished".
C11_StatusAfterMove == [](C11_StatusOfPosition) /\ [][C11_StatusStep]_vars

\* The nineteenth move of the stalemate line has been made: black is to
\* move, has no legal move and is not in check, and the status is Stalemate.
C11_Witness ==
    \E id \in DOMAIN games :
        /\ Len(games[id].moves_san) = 19
        /\ Turn(games[id].pos) = "black"
        /\ LegalMoves(games[id].pos) = {}
        /\ Checkers(games[id].pos) = {}
        /\ games[id].status = Stalemate

\* White has mated on the seventh move of its line.
C11_WhiteMates ==
    \E id \in DOMAIN games :
        /\ games[id].moves_san = <<"e4", "e5", "Qh5", "Nc6", "Bc4", "Nf6", "Qxf7">>
        /\ games[id].status = Checkmate(TRUE)

\* Black has mated on the fourth move of its line.
C11_BlackMates ==
    \E id \in DOMAIN games :
        /\ games[id].moves_san = <<"f3", "e5", "g4", "Qh4">>
        /\ games[id].status = Checkmate(FALSE)

\* The value of offset exceeds n, a number below 2^16.
Exceeds(offset, n) ==
    offset.w3 > 0 \/ offset.w2 > 0 \/ offset.w1 > 0 \/ offset.w0 > n

\* C12: for a registry holding games 1..n, list_recent(offset, limit)
\* returns the views of the ids n-offset, n-offset-1, ..., in strictly
\* descending order, min(limit, max(n-offset, 0)) of them, no id skipped or
\* repeated, for every offset and limit and on every build target.
C12_ListRecentWindow ==
    \A usize_bits \in PointerWidths, offset \in Offsets, limit \in Limits :
        LET n == Cardinality(DOMAIN games)
            r == list_recent(usize_bits, games, offset, limit)
            count == MinWith(limit, n - MinWith(offset, n))
        IN  /\ DOMAIN games = 1..n
            /\ Len(r) = count
            /\ \A i \in 1..Len(r) : r[i] = to_view(games[n - offset.w0 - (i - 1)])

\* C13: list_recent past the end is empty: for every offset of the 64-bit
\* parameter that exceeds the number of stored games, offsets of 2^32 and
\* above included, for every limit and on every build target, the result is
\* the empty sequence.
C13_PastTheEndEmpty ==
    \A usize_bits \in PointerWidths, offset \in Offsets, limit \in Limits :
        Exceeds(offset, Cardinality(DOMAIN games)) =>
            list_recent(usize_bits, games, offset, limit) = <<>>

\* C14: every failure is an explicit error result, never a fault: no
\* create_game invocation ends in a trap, whatever the random source
\* answers, and no make_move does, whatever the text.
C14_NoTrap ==
    /\ \A c \in Calls : calls[c].pc # "trapped"
    /\ \A id \in GameIds, who \in Actors, mv \in MoveTexts :
          make_move(games, id, mv, who, now).res # "Trap"

\* The texts given to the coordinate grammar: the promotion texts, and the
\* first move e2e4 followed by one and by three more characters.
CoordinateTexts ==
    PromotionTexts
    \cup { <<"e", "2", "e", "4">>,
           <<"e", "2", "e", "4", "x">>,
           <<"e", "2", "e", "4", "x", "y", "z">> }

\* C15: the coordinate grammar accepts only texts of 4 or 5 characters whose
\* fifth character, when present, is one of q/r/b/n in either case: a text of
\* 6 or more characters, or a 5-character text with another fifth character,
\* is never resolved by parse_uci_to_move; a promotion letter given is the
\* promotion role of the resolved move, and a 4-character text resolved to a
\* promoting move gives the queen promotion.
C15_CoordinateGrammar ==
    \A id \in DOMAIN games : \A mv \in CoordinateTexts :
        LET r == parse_uci_to_move(games[id].pos, mv)
        IN  /\ (Len(mv) >= 6 \/ (Len(mv) = 5 /\ PromoRole(mv[5]) = "none")) => r.tag # "Some"
            /\ (Len(mv) = 5 /\ PromoRole(mv[5]) # "none" /\ r.tag = "Some") =>
                  r.m.promotion = PromoRole(mv[5])
            /\ (Len(mv) = 4 /\ r.tag = "Some") => r.m.promotion \in {"none", "Q"}

\* The secrets that still open a seat of game g.
OpensWhite(g, token) == g.white = None /\ hash_token(token) = g.white_token_hash

OpensBlack(g, token) == g.black = None /\ hash_token(token) = g.black_token_hash

\* C16: join_by_token checks seating before any token.  A caller who holds a
\* seat of the game gets "You already occupy a seat in this game" for every
\* token, the unused secret of the other seat included, and nothing
\* changes, so that secret still seats any actor who holds no seat; and the
\* occupants of the two seats of a game are different actors.
C16_SeatedCallerRefused ==
    \A id \in DOMAIN games :
        LET g == games[id]
        IN  /\ \A who \in {g.white, g.black} \ {None} : \A token \in Tokens :
                  /\ join_by_token(games, id, token, who, now)
                        = Reply(games, "Err", ErrAlreadySeated)
                  /\ (OpensWhite(g, token) \/ OpensBlack(g, token)) =>
                        \A other \in Actors \ {g.white, g.black} :
                            join_by_token(games, id, token, other, now).res = "Ok"
            /\ (g.white # None /\ g.black # None) => g.white # g.black

\* White is seated, black is not, moves have been made; the white occupant
\* presenting black's unused secret is refused, and another actor presenting
\* it is seated.
C16_Witness ==
    \E id \in DOMAIN games : \E token \in Tokens, other \in Actors :
        LET g == games[id]
        IN  /\ g.white # None
            /\ g.moves_san # <<>>
            /\ OpensBlack(g, token)
            /\ other # g.white
            /\ join_by_token(games, id, token, g.white, now).err = ErrAlreadySeated
            /\ join_by_token(games, id, token, other, now).games[id].black = other

\* C17: seat claiming is independent of the game's status and touches only
\* the seat.  On every game, Ongoing or finished, join_by_token by a caller
\* holding no seat, with the unused secret of a seat, succeeds and changes
\* that seat's occupant, that seat's stored hash and updated_ns, and nothing
\* else.
C17_JoinTouchesOnlySeat ==
    \A id \in DOMAIN games : \A token \in Tokens :
        \A who \in Actors \ {games[id].white, games[id].black} :
            LET g == games[id]
                r == join_by_token(games, id, token, who, now)
            IN  /\ OpensWhite(g, token) =>
                      r = Reply([games EXCEPT ![id] =
                                    [g EXCEPT !.white = who,
                                              !.white_token_hash = ZeroHash,
                                              !.updated_ns = now]], "Ok", "")
                /\ OpensBlack(g, token) =>
                      r = Reply([games EXCEPT ![id] =
                                    [g EXCEPT !.black = who,
                                              !.black_token_hash = ZeroHash,
                                              !.updated_ns = now]], "Ok", "")

\* A checkmated game whose black seat was never claimed: an actor with no
\* seat presents black's secret, is seated, and the game is still
\* checkmated with its four moves.
C17_Witness ==
    \E id \in DOMAIN games : \E token \in Tokens, who \in Actors :
        LET g == games[id]
            r == join_by_token(games, id, token, who, now)
        IN  /\ g.status = Checkmate(FALSE)
            /\ OpensBlack(g, token)
            /\ who # g.white
            /\ g.updated_ns < now
            /\ r.res = "Ok"
            /\ r.games[id].black = who
            /\ r.games[id].status = Checkmate(FALSE)
            /\ Len(r.games[id].moves_san) = 4

\* C18: the Draw status is unreachable.  In every reachable state every
\* game's status is Ongoing, Checkmate, Stalemate or Resigned.
C18_NoDraw ==
    \A id \in DOMAIN games :
        /\ games[id].status.kind # "Draw"
        /\ games[id].status \in {Ongoing, Checkmate(TRUE), Checkmate(FALSE), Stalemate,
                                 Resigned(TRUE), Resigned(FALSE)}

\* The stalemate has been reached with both seats claimed, the one terminal
\* position that is neither won nor resigned.
C18_Witness ==
    \E id \in DOMAIN games :
        /\ games[id].status = Stalemate
        /\ games[id].white # None
        /\ games[id].black # None

\* White is to move exactly when the history has even length, in the game
\* and in its view.
C19_Parity ==
    \A id \in DOMAIN games :
        /\ (Turn(games[id].pos) = "white") <=> (Len(games[id].moves_san) % 2 = 0)
        /\ to_view(games[id]).to_move_white = (Len(to_view(games[id]).moves_san) % 2 = 0)

\* A step that changes a game's position hands the move to the other side
\* and adds one entry to the history.
C19_FlipStep ==
    \A id \in DOMAIN games :
        games'[id].pos # games[id].pos =>
            /\ Turn(games'[id].pos) = Other(Turn(games[id].pos))
            /\ Len(games'[id].moves_san) = Len(games[id].moves_san) + 1

\* C19: turn and history agree in parity.  In every reachable state of every
\* game white is to move exactly when the history has even length, the
\* view's to_move_white says the same, and every successful make_move flips
\* the side to move.
C19_TurnHistoryParity == [](C19_Parity) /\ [][C19_FlipStep]_vars

\* Seven moves have been made, the last a mate by white: black is to move
\* and the view says so.
C19_Witness ==
    \E id \in DOMAIN games :
        /\ Len(games[id].moves_san) = 7
        /\ Turn(games[id].pos) = "black"
        /\ to_view(games[id]).to_move_white = FALSE
        /\ games[id].status = Checkmate(TRUE)

\* C20: id order agrees with creation time.  For any two games in the
\* registry the one with the smaller id has a created_ns less than or equal
\* to that of the one with the larger id, and every game has
\* created_ns <= updated_ns.
C20_IdOrderIsTimeOrder ==
    /\ \A i \in DOMAIN games, j \in DOMAIN games :
          i < j => games[i].created_ns <= games[j].created_ns
    /\ \A id \in DOMAIN games : games[id].created_ns <= games[id].updated_ns

====
